---- MODULE Spec2Model ----
(***************************************************************************)
(* A model of the voice package: LavaNode (one WebSocket link to a         *)
(* Lavalink node), LavaPlayer (per-guild playback state) and LavaLink (the *)
(* router that owns the nodes by host and the players by guild).           *)
(*                                                                         *)
(* JavaScript is single-threaded: every handler runs to completion, so     *)
(* each handler is one action.  A handler that throws keeps the            *)
(* assignments it made before the throw and skips the rest.                *)
(***************************************************************************)
EXTENDS Integers, Sequences, FiniteSets, TLC

VARIABLES
    nodes,      \* LavaLink.nodes: host -> id of a LavaNode object
    node,       \* heap of the LavaNode objects ever constructed (by id)
    socks,      \* the WebSocket objects ever opened (by id)
    players,    \* LavaLink.players: guild -> LavaPlayer fields
    last        \* what the last handler did: its call, effects, throw, result

vars == <<nodes, node, socks, players, last>>

\* ------------------------------------------------------------------ bounds
MaxNodes == 2       \* LavaNode objects ever constructed
MaxSockets == 3     \* WebSocket objects ever opened
MaxRouterNodes == 1 \* LavaNode objects when the players are modelled too

\* ------------------------------------------------------------------ values
Hosts == {"a", "b"}
Guilds == {"g1", "g2"}
Null == "null"
Undefined == "undefined"
NoSock == 0                 \* this.ws = null
NoNode == 0                 \* nodes.get(host) of an unknown host: undefined
NormalClosure == 1000
CloseCodes == {1000, 1006}
\* Error texts a socket reports; _error looks for two substrings.
ErrorMessages == {"connect ECONNREFUSED 127.0.0.1:80", "socket hang up", "read ECONNRESET"}
HandshakeErrors == {"connect ECONNREFUSED 127.0.0.1:80", "socket hang up"}
Tracks == {"TRACK1", Null}
EndReasons == {"REPLACED", "replaced", "FINISHED", "finished"}
EventTypes == {"TrackEndEvent", "TrackExceptionEvent", "TrackStuckEvent", "WebSocketClosedEvent"}
PauseArgs == {TRUE, FALSE}
PlayerStates == {"{}", "{position:1}"}
DefaultStats == "{players:0,playingPlayers:0}"
StatsPayloads == {"{op:stats,players:1}", "{op:stats,players:2}"}

\* String.prototype.includes for the two substrings _error tests.
Includes(message, needle) ==
    CASE needle = "ECONNREFUSED" -> message = "connect ECONNREFUSED 127.0.0.1:80"
      [] needle = "socket hang up" -> message = "socket hang up"
      [] OTHER -> FALSE

\* ----------------------------------------------------------------- effects
\* One entry per observable thing a handler does, in program order.
Fx(k, n, g, op, v) == [k |-> k, n |-> n, g |-> g, op |-> op, v |-> v]
Wire(n, g, op, v) == Fx("wire", n, g, op, v)             \* ws.send(payload)
EmitNode(n, sig, v) == Fx("emit", n, "", sig, v)         \* node.emit(sig, v)
EmitPlayer(g, sig, v) == Fx("emit", NoNode, g, sig, v)   \* player.emit(sig, v)
Transport(g, op) == Fx("transport", NoNode, g, op, "")   \* client ws/connection send
Timer(n) == Fx("setTimeout", n, "", "", "")              \* setTimeout(...)
Opened(n) == Fx("new WebSocket", n, "", "", "")          \* new WebSocket(...)

Call(op, n, s, g, arg, fx, thrown, ret) ==
    [op |-> op, node |-> n, sock |-> s, guild |-> g, arg |-> arg,
     fx |-> fx, thrown |-> thrown, ret |-> ret]

Count(fx, k) == Cardinality({i \in DOMAIN fx : fx[i].k = k})

\* ---------------------------------------------------------------- LavaNode
\* constructor (LavaNode.js 24-81): ws = null, stats zeroed, then _connect();
\* `ready` is not assigned before the first open (undefined, falsy).
\* listening: LavaLink's 'error' and 'message' listeners are attached.
\* removed: removeNode was called for this object; host: the key createNode
\* stored it under (both kept for the claims).
NewNode(host, s) ==
    [ws |-> s, ready |-> FALSE, stats |-> DefaultStats, timers |-> 0,
     listening |-> TRUE, removed |-> FALSE, host |-> host]

\* A WebSocket of the ws library, bound to node `owner`.  code: the close code
\* it reported; reconnects: how many timers its events armed (for the claims).
NewSocket(n) == [owner |-> n, st |-> "connecting", code |-> 0, reconnects |-> 0]

\* Map helpers (JavaScript Map set / delete).
Put(f, k, v) == [x \in DOMAIN f \cup {k} |-> IF x = k THEN v ELSE f[x]]
Delete(f, k) == [x \in DOMAIN f \ {k} |-> f[x]]
EmptyMap == [x \in {} |-> NoNode]

Init ==
    /\ nodes = EmptyMap
    /\ node = <<>>
    /\ socks = <<>>
    /\ players = EmptyMap
    /\ last = Call("new LavaLink", NoNode, NoSock, "", "", <<>>, FALSE, Undefined)

NodeIds == DOMAIN node
SockIds == DOMAIN socks

\* The ws library reports a failed socket as 'error' immediately followed by
\* 'close' (code 1006), in the same turn of the event loop: while a socket is
\* between the two, no other handler runs.
Settled == \A s \in SockIds : socks[s].st # "errored"

\* EventEmitter.emit: an 'error' nobody listens to is thrown at the emitter.
EmitThrows(listening, sig) == sig = "error" /\ ~listening

\* _reconnect (LavaNode.js 191-200): arms one more timer, whatever is pending.
_reconnect(nd, n) == [nd EXCEPT ![n].timers = @ + 1]

\* 'open' of socket s -> _ready (LavaNode.js 108-120).
_ready(s) ==
    LET n == socks[s].owner IN
    /\ Settled
    /\ socks[s].st = "connecting"
    /\ socks' = [socks EXCEPT ![s].st = "open"]
    /\ node' = [node EXCEPT ![n].ready = TRUE]
    /\ last' = Call("_ready", n, s, "", "", <<EmitNode(n, "ready", "")>>, FALSE, Undefined)
    /\ UNCHANGED <<nodes, players>>

\* _error surfacing a connection-refused error like any other.
ErrorReconnectsNever(message) == FALSE

\* The three branches of _error (LavaNode.js 159-161).
ErrorSwallowed(message) == Includes(message, "socket hang up")
ErrorReconnects(message) == ~ErrorSwallowed(message) /\ Includes(message, "ECONNREFUSED")

\* 'error' of socket s -> _error (LavaNode.js 158-162).
_error(s, message) ==
    LET n == socks[s].owner IN
    /\ Settled
    /\ \/ socks[s].st = "connecting"
       \/ socks[s].st = "open" /\ message \notin HandshakeErrors
    /\ IF ErrorSwallowed(message)
         THEN /\ socks' = [socks EXCEPT ![s].st = "errored"]
              /\ UNCHANGED node
              /\ last' = Call("_error", n, s, "", message, <<>>, FALSE, Undefined)
         ELSE IF ErrorReconnects(message)
         THEN /\ node' = _reconnect(node, n)
              /\ socks' = [socks EXCEPT ![s].st = "errored", ![s].reconnects = @ + 1]
              /\ last' = Call("_error", n, s, "", message, <<Timer(n)>>, FALSE, Undefined)
         ELSE /\ socks' = [socks EXCEPT ![s].st = "errored"]
              /\ UNCHANGED node
              /\ last' = Call("_error", n, s, "", message, <<EmitNode(n, "error", message)>>,
                              EmitThrows(node[n].listening, "error"), Undefined)
    /\ UNCHANGED <<nodes, players>>

\* _close treating every code as the normal one.
CloseReconnectsNever(code) == FALSE

\* The test of _close (LavaNode.js 174).
CloseReconnects(code) == code # NormalClosure

\* 'close' of socket s -> _close (LavaNode.js 172-184).  A failed socket
\* closes with 1006; an open one with whatever code the peer or network gives.
_close(s, code) ==
    LET n == socks[s].owner IN
    /\ \/ Settled /\ socks[s].st = "open"
       \/ socks[s].st = "errored" /\ code = 1006
    /\ IF CloseReconnects(code)
         THEN /\ node' = _reconnect([node EXCEPT ![n].ready = FALSE], n)
              /\ socks' = [socks EXCEPT ![s].st = "closed", ![s].code = code,
                                        ![s].reconnects = @ + 1]
              /\ last' = Call("_close", n, s, "", code, <<Timer(n)>>, FALSE, Undefined)
         ELSE /\ node' = [node EXCEPT ![n].ready = FALSE, ![n].ws = NoSock]
              /\ socks' = [socks EXCEPT ![s].st = "closed", ![s].code = code]
              /\ last' = Call("_close", n, s, "", code,
                              <<EmitNode(n, "disconnect", "")>>, FALSE, Undefined)
    /\ UNCHANGED <<nodes, players>>

\* The timer callback armed by _reconnect (LavaNode.js 192-199): emits
\* 'reconnecting', then _connect (LavaNode.js 88-101) opens a new WebSocket
\* bound to this node; the previous socket is neither closed nor unbound.
\* cap bounds the sockets ever opened.
ReconnectTimer(n, cap) ==
    /\ Settled
    /\ node[n].timers > 0
    /\ Len(socks) < cap
    /\ socks' = Append(socks, NewSocket(n))
    /\ node' = [node EXCEPT ![n].timers = @ - 1, ![n].ws = Len(socks) + 1]
    /\ last' = Call("reconnect", n, Len(socks) + 1, "", "",
                    <<EmitNode(n, "reconnecting", ""), Opened(n)>>, FALSE, Undefined)
    /\ UNCHANGED <<nodes, players>>

\* What ws.send does with this.ws as it is (LavaNode.js 215): a null handle
\* is a TypeError; a socket still connecting throws; an open one writes; a
\* closed one throws (ws up to 6) or drops the payload (ws 7 and later).
SendOutcomes(n) ==
    IF n = NoNode THEN {"thrown"}
    ELSE IF node[n].ws = NoSock THEN {"thrown"}
    ELSE CASE socks[node[n].ws].st = "open" -> {"written"}
           [] socks[node[n].ws].st = "connecting" -> {"thrown"}
           [] OTHER -> {"thrown", "dropped"}

SendFx(n, g, op, v, outcome) == IF outcome = "written" THEN <<Wire(n, g, op, v)>> ELSE <<>>

\* send (LavaNode.js 208-216), called by the host on a node object it holds.
send(n, op) ==
    /\ Settled
    /\ \E outcome \in SendOutcomes(n) :
         last' = Call("send", n, node[n].ws, "", op, SendFx(n, "", op, "", outcome),
                      outcome = "thrown", Undefined)
    /\ UNCHANGED <<nodes, node, socks, players>>

\* ---------------------------------------------------------------- LavaLink
\* createNode (part_003 67-79): a new LavaNode with LavaLink's listeners,
\* stored under the host whether or not the host already has one.
createNode(host, capNodes, capSocks) ==
    /\ Settled
    /\ Len(node) < capNodes
    /\ Len(socks) < capSocks
    /\ node' = Append(node, NewNode(host, Len(socks) + 1))
    /\ socks' = Append(socks, NewSocket(Len(node) + 1))
    /\ nodes' = Put(nodes, host, Len(node) + 1)
    /\ last' = Call("createNode", Len(node) + 1, Len(socks) + 1, "", host,
                    <<Opened(Len(node) + 1)>>, FALSE, Undefined)
    /\ UNCHANGED <<players>>

\* removeNode (part_003 87-92).
removeNode(host) ==
    /\ Settled
    /\ IF host \in DOMAIN nodes
         THEN /\ node' = [node EXCEPT ![nodes[host]].listening = FALSE,
                                      ![nodes[host]].removed = TRUE]
              /\ nodes' = Delete(nodes, host)
              /\ last' = Call("removeNode", nodes[host], NoSock, "", host, <<>>, FALSE, Undefined)
         ELSE /\ UNCHANGED <<node, nodes>>
              /\ last' = Call("removeNode", NoNode, NoSock, "", host, <<>>, FALSE, Undefined)
    /\ UNCHANGED <<socks, players>>

\* --------------------------------------------------------------- LavaPlayer
\* constructor (part_000 177-239).  listening: the host has attached its
\* listeners (EventEmitter.on) and leave has not removed them.
NewPlayer(n, g) ==
    [node |-> n, guild |-> g, channel |-> "c1", ready |-> FALSE, playing |-> FALSE,
     paused |-> FALSE, state |-> "{}", track |-> Null, listening |-> FALSE]

HasPlayer(g) == g \in DOMAIN players

\* The host attaches 'end' / 'error' / 'warn' listeners to a player it holds.
on(g) ==
    /\ Settled
    /\ HasPlayer(g)
    /\ ~players[g].listening
    /\ players' = [players EXCEPT ![g].listening = TRUE]
    /\ last' = Call("on", NoNode, NoSock, g, "", <<>>, FALSE, Undefined)
    /\ UNCHANGED <<nodes, node, socks>>

\* A player method that only sends: connect (part_000 253-260),
\* volume (314-320), seek (327-333).
SendOnly(g, op, v) ==
    /\ Settled
    /\ HasPlayer(g)
    /\ \E outcome \in SendOutcomes(players[g].node) :
         last' = Call(op, players[g].node, NoSock, g, v,
                      SendFx(players[g].node, players[g].guild, op, v, outcome),
                      outcome = "thrown", Undefined)
    /\ UNCHANGED <<nodes, node, socks, players>>

connect(g, session) == SendOnly(g, "voiceUpdate", session)
volume(g, level) == SendOnly(g, "volume", level)
seek(g, position) == SendOnly(g, "seek", position)

\* The options of play, as far as they name a guildId of their own.
NoOptions == [guildId |-> Undefined]
PlayOptions == {NoOptions, [guildId |-> "g2"]}

\* Object.assign({op, guildId: this.guild, track}, options) (part_000 270-274):
\* a guildId among the options replaces the player's.
Assigned(guild, options) == IF options.guildId = Undefined THEN guild ELSE options.guildId

\* play (part_000 268-278): track is assigned before the send, playing after.
playWith(g, track, options) ==
    /\ Settled
    /\ HasPlayer(g)
    /\ \E outcome \in SendOutcomes(players[g].node) :
         /\ players' = IF outcome = "thrown"
                         THEN [players EXCEPT ![g].track = track]
                         ELSE [players EXCEPT ![g].track = track, ![g].playing = TRUE]
         /\ last' = Call("play", players[g].node, NoSock, g, track,
                         SendFx(players[g].node, Assigned(players[g].guild, options),
                                "play", track, outcome),
                         outcome = "thrown", Undefined)
    /\ UNCHANGED <<nodes, node, socks>>

\* play called without options.
play(g, track) == playWith(g, track, NoOptions)

\* stop resuming a paused session.
StoppedAndResumed(p, outcome) ==
    IF outcome = "thrown" THEN p
    ELSE [p EXCEPT !.playing = FALSE, !.track = Null, !.paused = FALSE]

\* stop forgetting to clear playing.
StoppedStillPlaying(p, outcome) ==
    IF outcome = "thrown" THEN p ELSE [p EXCEPT !.track = Null]

\* stop (part_000 284-291) on a player record: the record after it.
Stopped(p, outcome) ==
    IF outcome = "thrown" THEN p ELSE [p EXCEPT !.playing = FALSE, !.track = Null]

stop(g) ==
    /\ Settled
    /\ HasPlayer(g)
    /\ \E outcome \in SendOutcomes(players[g].node) :
         /\ players' = [players EXCEPT ![g] = Stopped(@, outcome)]
         /\ last' = Call("stop", players[g].node, NoSock, g, "",
                         SendFx(players[g].node, players[g].guild, "stop", "", outcome),
                         outcome = "thrown", Undefined)
    /\ UNCHANGED <<nodes, node, socks>>

\* The guard of pause (part_000 300).
PauseIsNoop(flag, paused) == (flag /\ paused) \/ (~flag /\ ~paused)

\* pause (part_000 299-307).
pause(g, flag) ==
    /\ Settled
    /\ HasPlayer(g)
    /\ IF PauseIsNoop(flag, players[g].paused)
         THEN /\ UNCHANGED players
              /\ last' = Call("pause", players[g].node, NoSock, g, flag, <<>>, FALSE, Undefined)
         ELSE \E outcome \in SendOutcomes(players[g].node) :
              /\ players' = IF outcome = "thrown" THEN players
                            ELSE [players EXCEPT ![g].paused = flag]
              /\ last' = Call("pause", players[g].node, NoSock, g, flag,
                              SendFx(players[g].node, players[g].guild, "pause", flag, outcome),
                              outcome = "thrown", Undefined)
    /\ UNCHANGED <<nodes, node, socks>>

\* end testing for the lower-case reason.
EndClearsLowerCase(reason) == reason # "replaced"

\* The test of end (part_000 341).
EndClears(reason) == reason # "REPLACED"

\* end (part_000 340-352) on a player record.
Ended(p, reason) ==
    IF EndClears(reason) THEN [p EXCEPT !.playing = FALSE, !.track = Null] ELSE p

\* stuck (part_000 373-376): what it does, in order; a throwing stop ends it.
StuckFx(p, message, outcome) ==
    SendFx(p.node, p.guild, "stop", "", outcome)
        \o (IF outcome = "thrown" THEN <<>> ELSE <<EmitPlayer(p.guild, "end", message)>>)

\* end, exception (part_000 359-366) and stuck called on a player the host
\* holds; LavaLink.message calls the same three for the frames it routes.
end(g, reason) ==
    /\ Settled
    /\ HasPlayer(g)
    /\ players' = [players EXCEPT ![g] = Ended(@, reason)]
    /\ last' = Call("end", players[g].node, NoSock, g, reason,
                    <<EmitPlayer(g, "end", reason)>>, FALSE, Undefined)
    /\ UNCHANGED <<nodes, node, socks>>

exception(g, message) ==
    /\ Settled
    /\ HasPlayer(g)
    /\ last' = Call("exception", players[g].node, NoSock, g, message,
                    <<EmitPlayer(g, "error", message)>>,
                    EmitThrows(players[g].listening, "error"), Undefined)
    /\ UNCHANGED <<nodes, node, socks, players>>

stuck(g, message) ==
    /\ Settled
    /\ HasPlayer(g)
    /\ \E outcome \in SendOutcomes(players[g].node) :
         /\ players' = [players EXCEPT ![g] = Stopped(@, outcome)]
         /\ last' = Call("stuck", players[g].node, NoSock, g, message,
                         StuckFx(players[g], message, outcome), outcome = "thrown", Undefined)
    /\ UNCHANGED <<nodes, node, socks>>

\* ------------------------------------------------------- inbound frames
Frame(json, op, g, type, reason, state) ==
    [json |-> json, op |-> op, guildId |-> g, type |-> type, reason |-> reason, state |-> state]
BadFrame == Frame("bad", "", "", "", "", "")            \* JSON.parse throws
NullFrame == Frame("null", "", "", "", "", "")          \* parses to a falsy value
NoOpFrame == Frame("object", "", "", "", "", "")        \* an object without op
\* A stats frame: `state` holds the text of the whole payload.
StatsFrame == Frame("object", "stats", "", "", "", "{op:stats,players:1}")
StatsFrames == {Frame("object", "stats", "", "", "", p) : p \in StatsPayloads}
NodeFrames == {BadFrame, NullFrame, NoOpFrame} \cup StatsFrames
UpdateFrames == {Frame("object", "playerUpdate", g, "", "", st) : g \in Guilds, st \in PlayerStates}
EndFrames == {Frame("object", "event", g, "TrackEndEvent", r, "") : g \in Guilds, r \in EndReasons}
OtherEventFrames ==
    {Frame("object", "event", g, ty, "", "") : g \in Guilds, ty \in EventTypes \ {"TrackEndEvent"}}
Frames == NodeFrames \cup UpdateFrames \cup EndFrames \cup OtherEventFrames

\* A playerUpdate that also stops the session.
UpdatedAndStopped(p, state) == [p EXCEPT !.state = state, !.playing = FALSE]

\* case 'playerUpdate' (part_003 109): player.state = message.state.
Updated(p, state) == [p EXCEPT !.state = state]

\* A switch that hands an unknown type to exception.
DispatchUnknownAsException(type) ==
    CASE type = "TrackEndEvent" -> "end"
      [] type = "TrackExceptionEvent" -> "exception"
      [] type = "TrackStuckEvent" -> "stuck"
      [] OTHER -> "exception"

\* switch (message.type) (part_003 116-125): the method that handles a type.
Dispatch(type) ==
    CASE type = "TrackEndEvent" -> "end"
      [] type = "TrackExceptionEvent" -> "exception"
      [] type = "TrackStuckEvent" -> "stuck"
      [] OTHER -> "warn"

\* LavaLink.message (part_003 102-133) for a frame that has an op: the
\* players after it, its effects, and whether it threw.  With no player for
\* the frame's guild, or an op it does not know, nothing happens.
Routed(f, outcome) ==
    LET g == f.guildId
        p == players[g]
        none == [players |-> players, fx |-> <<>>, thrown |-> FALSE]
    IN  IF f.op \notin {"playerUpdate", "event"} THEN none
        ELSE IF ~HasPlayer(g) THEN none
        ELSE IF f.op = "playerUpdate"
          THEN [players |-> [players EXCEPT ![g] = Updated(@, f.state)],
                fx |-> <<>>, thrown |-> FALSE]
        ELSE CASE Dispatch(f.type) = "end" ->
                    [players |-> [players EXCEPT ![g] = Ended(@, f.reason)],
                     fx |-> <<EmitPlayer(g, "end", f.reason)>>, thrown |-> FALSE]
               [] Dispatch(f.type) = "exception" ->
                    [players |-> players, fx |-> <<EmitPlayer(g, "error", f.type)>>,
                     thrown |-> EmitThrows(p.listening, "error")]
               [] Dispatch(f.type) = "stuck" ->
                    [players |-> [players EXCEPT ![g] = Stopped(@, outcome)],
                     fx |-> StuckFx(p, f.type, outcome), thrown |-> outcome = "thrown"]
               [] OTHER ->
                    [players |-> players, fx |-> <<EmitPlayer(g, "warn", f.type)>>,
                     thrown |-> FALSE]

\* The send outcomes a frame can meet: only TrackStuckEvent sends.
RoutedOutcomes(f) ==
    IF f.op = "event" /\ f.type = "TrackStuckEvent" /\ HasPlayer(f.guildId)
      THEN SendOutcomes(players[f.guildId].node)
      ELSE {"none"}

\* _message keeping no frame as the statistics.
StoresStatsNever(f) == FALSE

\* The test of _message (LavaNode.js 141): the frame becomes this.stats.
StoresStats(f) == f.op = "stats"

\* 'message' of socket s -> _message (LavaNode.js 129-149), and through the
\* node's 'message' listener LavaLink.message.  The 'message' signal carries
\* the parsed frame itself.
_message(s, f) ==
    LET n == socks[s].owner IN
    /\ Settled
    /\ socks[s].st = "open"
    /\ IF f.json = "bad"
         THEN /\ last' = Call("_message", n, s, "", f, <<EmitNode(n, "error", "SyntaxError")>>,
                              EmitThrows(node[n].listening, "error"), Undefined)
              /\ UNCHANGED <<node, players>>
       ELSE IF f.json = "null"
         THEN /\ last' = Call("_message", n, s, "", f, <<>>, FALSE, Undefined)
              /\ UNCHANGED <<node, players>>
       ELSE /\ node' = IF StoresStats(f) THEN [node EXCEPT ![n].stats = f.state] ELSE node
            /\ IF ~node[n].listening \/ f.op = ""
                 THEN /\ UNCHANGED players
                      /\ last' = Call("_message", n, s, f.guildId, f,
                                      <<EmitNode(n, "message", f)>>, FALSE, Undefined)
                 ELSE \E outcome \in RoutedOutcomes(f) :
                      /\ players' = Routed(f, outcome).players
                      /\ last' = Call("_message", n, s, f.guildId, f,
                                      <<EmitNode(n, "message", f)>> \o Routed(f, outcome).fx,
                                      Routed(f, outcome).thrown, Undefined)
    /\ UNCHANGED <<nodes, socks>>

\* ---------------------------------------------------- LavaLink, players
\* join (part_003 135-154) with spawnPlayer (part_003 207-218).  The client
\* offers one of the two transports (its own ws, or per-shard connections):
\* exactly one of the two branches runs, and both forward and spawn alike.
join(g, host) ==
    /\ Settled
    /\ IF HasPlayer(g)
         THEN /\ UNCHANGED players
              /\ last' = Call("join", NoNode, NoSock, g, host, <<>>, FALSE, g)
         ELSE /\ players' = Put(players, g,
                                NewPlayer(IF host \in DOMAIN nodes THEN nodes[host] ELSE NoNode, g))
              /\ last' = Call("join", NoNode, NoSock, g, host, <<Transport(g, "join")>>,
                              FALSE, Undefined)
    /\ UNCHANGED <<nodes, node, socks>>

\* leave without its guard (part_003 159): forwards and detaches whatever
\* players.get returned.
leaveUnguarded(g) ==
    /\ Settled
    /\ players' = IF HasPlayer(g) THEN [players EXCEPT ![g].listening = FALSE] ELSE players
    /\ last' = Call("leave", NoNode, NoSock, g, "", <<Transport(g, "leave")>>, TRUE, Undefined)
    /\ UNCHANGED <<nodes, node, socks>>

\* leave (part_003 157-169): forwards through the client's transport, then
\* after removeAllListeners it calls
\* player.destroy(), which LavaPlayer (part_000 163-377) does not define:
\* a TypeError, so players.delete is not reached.
leave(g) ==
    /\ Settled
    /\ IF ~HasPlayer(g)
         THEN /\ UNCHANGED players
              /\ last' = Call("leave", NoNode, NoSock, g, "", <<>>, FALSE, Undefined)
         ELSE /\ players' = [players EXCEPT ![g].listening = FALSE]
              /\ last' = Call("leave", NoNode, NoSock, g, "", <<Transport(g, "leave")>>,
                              TRUE, Undefined)
    /\ UNCHANGED <<nodes, node, socks>>

\* voiceServerUpdate (part_003 171-192); known: the client has the guild
\* (ws) or the voice session (connections) of data.guild_id.
voiceServerUpdate(g, known) ==
    /\ Settled
    /\ IF ~known \/ ~HasPlayer(g)
         THEN last' = Call("voiceServerUpdate", NoNode, NoSock, g, known, <<>>, FALSE, Undefined)
         ELSE \E outcome \in SendOutcomes(players[g].node) :
              last' = Call("voiceServerUpdate", players[g].node, NoSock, g, known,
                           SendFx(players[g].node, players[g].guild, "voiceUpdate", "sid", outcome),
                           outcome = "thrown", Undefined)
    /\ UNCHANGED <<nodes, node, socks, players>>

\* ------------------------------------------------------------ specifications
\* The node side alone: registration, removal, socket events, timers, send.
NextNode ==
    \/ \E h \in Hosts : createNode(h, MaxNodes, MaxSockets)
    \/ \E h \in Hosts : removeNode(h)
    \/ \E s \in SockIds : _ready(s)
    \/ \E s \in SockIds, m \in ErrorMessages : _error(s, m)
    \/ \E s \in SockIds, c \in CloseCodes : _close(s, c)
    \/ \E n \in NodeIds : ReconnectTimer(n, MaxSockets)
    \/ \E n \in NodeIds : send(n, "ping")

SpecNode == Init /\ [][NextNode]_vars

\* The router: both guilds and every kind of routed frame, over nodes that
\* are registered, connect and are removed.  Of the player's own methods only
\* play is called here; the others, the host's listeners and nodes that
\* close are exercised in SpecPlayer.
RouterFrames ==
    {NoOpFrame} \cup {f \in UpdateFrames : f.state # "{}"}
                \cup {f \in EndFrames : f.reason = "FINISHED"} \cup OtherEventFrames

Next ==
    \/ \E h \in Hosts : createNode(h, MaxRouterNodes, MaxRouterNodes)
    \/ \E h \in Hosts : removeNode(h)
    \/ \E s \in SockIds : _ready(s)
    \/ \E s \in SockIds, f \in RouterFrames : _message(s, f)
    \/ \E g \in Guilds, h \in Hosts : join(g, h)
    \/ \E g \in Guilds : leave(g)
    \/ \E g \in Guilds, known \in BOOLEAN : voiceServerUpdate(g, known)
    \/ \E g \in Guilds : play(g, "TRACK1")

Spec == Init /\ [][Next]_vars

\* One player: every method of LavaPlayer with every argument, and every
\* frame addressed to its guild, over nodes that connect and close.
PlayerGuilds == {"g1"}
PlayerFrames == {f \in Frames \ NodeFrames : f.guildId \in PlayerGuilds}

NextPlayer ==
    \/ \E h \in Hosts : createNode(h, MaxRouterNodes, MaxRouterNodes)
    \/ \E h \in Hosts : removeNode(h)
    \/ \E s \in SockIds : _ready(s)
    \/ \E s \in SockIds, c \in CloseCodes : _close(s, c)
    \/ \E s \in SockIds, f \in PlayerFrames : _message(s, f)
    \/ \E g \in PlayerGuilds, h \in Hosts : join(g, h)
    \/ \E g \in PlayerGuilds : leave(g)
    \/ \E g \in PlayerGuilds : on(g)
    \/ \E g \in PlayerGuilds : connect(g, "sid")
    \/ \E g \in PlayerGuilds, tr \in Tracks, o \in PlayOptions : playWith(g, tr, o)
    \/ \E g \in PlayerGuilds : stop(g)
    \/ \E g \in PlayerGuilds, flag \in PauseArgs : pause(g, flag)
    \/ \E g \in PlayerGuilds : volume(g, "100")
    \/ \E g \in PlayerGuilds : seek(g, "0")
    \/ \E g \in PlayerGuilds, r \in EndReasons : end(g, r)
    \/ \E g \in PlayerGuilds : exception(g, "TrackExceptionEvent")
    \/ \E g \in PlayerGuilds : stuck(g, "TrackStuckEvent")

SpecPlayer == Init /\ [][NextPlayer]_vars

\* Every frame a node can receive, statistics included, on nodes that are
\* registered, open, close and are removed, with and without a session.
NextFrames ==
    \/ \E h \in Hosts : createNode(h, MaxRouterNodes, MaxRouterNodes)
    \/ \E h \in Hosts : removeNode(h)
    \/ \E s \in SockIds : _ready(s)
    \/ \E s \in SockIds, c \in CloseCodes : _close(s, c)
    \/ \E s \in SockIds, f \in Frames : _message(s, f)
    \/ \E g \in PlayerGuilds, h \in Hosts : join(g, h)

SpecFrames == Init /\ [][NextFrames]_vars

\* The node side with the event loop's guarantees.  Sockets are opened
\* without end in the program; here the environment stops failing sockets
\* when the sockets opened, the timers armed and the closes still owed
\* would pass MaxSockets, so that every armed timer can run.
RECURSIVE TimersArmed(_)
TimersArmed(k) == IF k = 0 THEN 0 ELSE node[k].timers + TimersArmed(k - 1)
Owed == Cardinality({s \in SockIds : socks[s].st = "errored"})
Room(k) == Len(socks) + TimersArmed(Len(node)) + Owed + k <= MaxSockets

NextLive ==
    \/ \E h \in Hosts : Room(1) /\ createNode(h, MaxNodes, MaxSockets)
    \/ \E h \in Hosts : removeNode(h)
    \/ \E s \in SockIds : _ready(s)
    \/ \E s \in SockIds, m \in ErrorMessages :
          Room(IF ErrorReconnects(m) THEN 2 ELSE 1) /\ _error(s, m)
    \/ \E s \in SockIds, c \in CloseCodes :
          (socks[s].st = "errored" \/ c = NormalClosure \/ Room(1)) /\ _close(s, c)
    \/ \E n \in NodeIds : ReconnectTimer(n, MaxSockets)

\* A timer armed with setTimeout runs (LavaNode.js 192), and a failed socket
\* reports its close.
Fairness ==
    /\ \A n \in 1..MaxNodes : WF_vars(n \in NodeIds /\ ReconnectTimer(n, MaxSockets))
    /\ WF_vars(\E s \in SockIds : socks[s].st = "errored" /\ _close(s, 1006))

SpecLive == Init /\ [][NextLive]_vars /\ Fairness

\* ------------------------------------------------------------------ claims

\* C1: a socket closed with 1000 armed no reconnect, and a socket closed with
\* any other code armed exactly one, also when a connection-refused error
\* on the same socket came first.
C1_OneReconnectPerClose ==
    \A s \in SockIds :
        socks[s].st = "closed" =>
            socks[s].reconnects = (IF socks[s].code = NormalClosure THEN 0 ELSE 1)

\* C2: a node object that removeNode removed never runs its reconnect timer
\* (no 'reconnecting', no new socket).
C2_RemovedNodeStaysDown ==
    last.op = "reconnect" => ~node[last.node].removed

\* C3: every join returns the guild's session and forwards the join payload
\* to the host transport once.
C3_JoinReturnsSessionAndForwards ==
    last.op = "join" =>
        /\ HasPlayer(last.guild)
        /\ last.ret = last.guild
        /\ Count(last.fx, "transport") = 1

\* C4: after leave for a guild, the guild has no session.
C4_LeaveRemovesSession ==
    last.op = "leave" => ~HasPlayer(last.guild)

\* C5: leave for a guild without a session, and a frame that names a guild
\* without a session, change neither the nodes nor any player, do nothing
\* beyond the node's own 'message' signal, and do not throw.
C5_NoSessionNoEffect ==
    [][((last'.op = "leave" \/ (last'.op = "_message" /\ last'.guild \in Guilds))
            /\ ~HasPlayer(last'.guild))
        => /\ UNCHANGED <<nodes, node, players>>
           /\ ~last'.thrown
           /\ last'.fx = IF last'.op = "leave" THEN <<>>
                         ELSE <<EmitNode(last'.node, "message", last'.arg)>>
      ]_vars

\* C5 witness: a frame for a guild without a session arrived at the router
\* while the other guild's session was playing.
C5_Witness ==
    /\ last.op = "_message"
    /\ last.guild \in Guilds
    /\ ~HasPlayer(last.guild)
    /\ node[last.node].listening
    /\ \E g \in DOMAIN players : players[g].playing

\* C6: pause(flag) with flag equal to paused sends nothing and changes
\* nothing; otherwise it sends one pause and paused becomes flag.
C6_PauseSendsOnceAndSets ==
    [][last'.op = "pause" =>
        IF last'.arg = players[last'.guild].paused
          THEN players' = players /\ last'.fx = <<>>
          ELSE /\ players'[last'.guild].paused = last'.arg
               /\ last'.fx = <<Wire(last'.node, last'.guild, "pause", last'.arg)>>
      ]_vars

\* A frame of the given type that LavaLink.message routed to a session.
Delivered(c, type) ==
    /\ c.op = "_message"
    /\ c.arg.op = "event"
    /\ c.arg.type = type
    /\ node[c.node].listening
    /\ HasPlayer(c.guild)

\* What the player's method did: a routed frame's effects come after the
\* node's 'message' signal.
PlayerFx(c) == IF c.op = "_message" THEN Tail(c.fx) ELSE c.fx

\* end ran on a session, called by the host or for a routed TrackEndEvent.
EndRan(c) == c.op = "end" \/ Delivered(c, "TrackEndEvent")
EndReason(c) == IF c.op = "end" THEN c.arg ELSE c.arg.reason
EndEmittedOnce(c) == PlayerFx(c) = <<EmitPlayer(c.guild, "end", EndReason(c))>>

\* C7 as stated: reason "replaced" leaves track and playing unchanged, any
\* other reason clears them, and one end signal is emitted either way.
C7_ReplacedLowerCaseKeeps ==
    [][EndRan(last') =>
        /\ IF EndReason(last') = "replaced"
             THEN players'[last'.guild] = players[last'.guild]
             ELSE ~players'[last'.guild].playing /\ players'[last'.guild].track = Null
        /\ EndEmittedOnce(last')
      ]_vars

\* C7 amended: reason "REPLACED" (upper case, as the node sends it) leaves the
\* player unchanged; every other reason, lower-case "replaced" included,
\* clears playing and track and nothing else; one end signal is emitted
\* either way.
C7_ReplacedKeeps ==
    [][EndRan(last') =>
        /\ IF EndReason(last') = "REPLACED"
             THEN players'[last'.guild] = players[last'.guild]
             ELSE players'[last'.guild] =
                    [players[last'.guild] EXCEPT !.playing = FALSE, !.track = Null]
        /\ EndEmittedOnce(last')
      ]_vars

\* C7 witness: a routed REPLACED end reached a playing session, which plays on.
C7_Witness ==
    /\ Delivered(last, "TrackEndEvent")
    /\ last.arg.reason = "REPLACED"
    /\ players[last.guild].playing
    /\ players[last.guild].track = "TRACK1"
    /\ EndEmittedOnce(last)

\* stuck ran on a session, called by the host or for a routed TrackStuckEvent.
StuckRan(c) == c.op = "stuck" \/ Delivered(c, "TrackStuckEvent")

\* C8: stuck writes one stop to the session's node, then emits one end
\* carrying the message, and leaves playing false and track null.
C8_StuckStopsThenEnds ==
    StuckRan(last)
    => /\ PlayerFx(last) = << Wire(players[last.guild].node, last.guild, "stop", ""),
                              EmitPlayer(last.guild, "end", "TrackStuckEvent") >>
       /\ ~players[last.guild].playing
       /\ players[last.guild].track = Null

\* C9 as stated: playing is false whenever track is null.
C9_NullTrackNotPlaying ==
    \A g \in DOMAIN players : players[g].track = Null => ~players[g].playing

\* C9 amended: a session comes to have a null track while playing only by
\* play called with a null track; no other operation brings it there.
C9_OnlyPlayNullBreaks ==
    [][\A g \in DOMAIN players' :
          (players'[g].track = Null /\ players'[g].playing)
          => \/ g \in DOMAIN players /\ players[g].track = Null /\ players[g].playing
             \/ last'.op = "play" /\ last'.guild = g /\ last'.arg = Null
      ]_vars

\* C9 witness: a stop that was written cleared a session.
C9_Witness ==
    /\ last.op = "stop"
    /\ Count(last.fx, "wire") = 1
    /\ players[last.guild].track = Null
    /\ ~players[last.guild].playing

\* C10: send on a node whose handle is absent or whose socket is not open
\* writes nothing and does not throw.
C10_SendNotReadyIsSilent ==
    (last.op = "send" /\ (last.sock = NoSock \/ socks[last.sock].st # "open"))
    => last.fx = <<>> /\ ~last.thrown

\* The operations a host calls: LavaLink's, LavaPlayer's and LavaNode.send.
\* A routed frame is LavaLink.message called by the node's 'message' signal.
PublicOps ==
    {"createNode", "removeNode", "join", "leave", "voiceServerUpdate", "_message",
     "voiceUpdate", "play", "stop", "pause", "volume", "seek", "end", "exception",
     "stuck", "send"}

\* C11: no public operation throws: not the router's, not a session's, not
\* send.
C11_NoPublicOperationThrows ==
    last.op \in PublicOps => ~last.thrown

\* The sockets of node n that closed with the normal code.
NormallyClosed(n) ==
    {s \in SockIds : socks[s].owner = n /\ socks[s].st = "closed" /\ socks[s].code = NormalClosure}

\* C12: a close with code 1000 leaves the node not ready with a null handle
\* and emits one disconnect; a node one of whose sockets closed with 1000
\* is never ready again and its reconnect timer never runs again.
C12_NormalCloseIsTerminal ==
    /\ (last.op = "_close" /\ last.arg = NormalClosure)
          => /\ ~node[last.node].ready
             /\ node[last.node].ws = NoSock
             /\ last.fx = <<EmitNode(last.node, "disconnect", "")>>
    /\ \A n \in NodeIds :
          NormallyClosed(n) # {}
            => /\ ~node[n].ready
               /\ ~(last.op = "reconnect" /\ last.node = n)

\* A node object that still has a socket connecting or open, or a timer armed.
Live(n) ==
    \/ node[n].timers > 0
    \/ \E s \in SockIds : socks[s].owner = n /\ socks[s].st \in {"connecting", "open", "errored"}

\* C13: no host has two live node objects.
C13_OneNodePerHost ==
    \A h \in Hosts : Cardinality({n \in NodeIds : node[n].host = h /\ Live(n)}) <= 1

\* A frame that JSON.parse turned into an object reached _message.
Parsed(c) == c.op = "_message" /\ c.arg.json = "object"

\* How many signals the node itself emitted during the call.
NodeEmits(c) == Cardinality({i \in DOMAIN c.fx : c.fx[i].k = "emit" /\ c.fx[i].n = c.node})

\* C14 as stated: a stats frame replaces the node's statistics and emits no
\* message signal; any other parsed frame leaves the statistics alone and is
\* emitted once, as it is, as the message signal.
C14_StatsNotForwarded ==
    [][Parsed(last') =>
        IF last'.arg.op = "stats"
          THEN /\ node'[last'.node].stats = last'.arg.state
               /\ NodeEmits(last') = 0
          ELSE /\ node'[last'.node].stats = node[last'.node].stats
               /\ last'.fx[1] = EmitNode(last'.node, "message", last'.arg)
               /\ NodeEmits(last') = 1
      ]_vars

\* C14 amended: a stats frame replaces the node's statistics with the payload
\* and any other parsed frame leaves them alone; every parsed frame, a stats
\* frame included, is emitted once, as it is, as the node's message signal;
\* nothing else of the node changes.
C14_StatsStoredAndForwarded ==
    [][Parsed(last') =>
        /\ node' = [node EXCEPT ![last'.node].stats =
                        IF last'.arg.op = "stats" THEN last'.arg.state ELSE @]
        /\ last'.fx[1] = EmitNode(last'.node, "message", last'.arg)
        /\ NodeEmits(last') = 1
      ]_vars

\* C14 witness: a stats frame became the node's statistics and was emitted as
\* the message signal.
C14_Witness ==
    /\ Parsed(last)
    /\ last.arg.op = "stats"
    /\ last.arg.state = "{op:stats,players:2}"
    /\ node[last.node].stats = "{op:stats,players:2}"
    /\ last.fx = <<EmitNode(last.node, "message", last.arg)>>

\* C15: a connection-refused error emits nothing and arms one reconnect
\* timer, which is all an abnormal close does besides clearing ready; an
\* error that is emitted as the error signal leaves the armed timers armed;
\* a timer that runs emits 'reconnecting' and then opens a socket.
C15_RefusedReconnectsSilently ==
    [][/\ (last'.op = "_error" /\ Includes(last'.arg, "ECONNREFUSED"))
          => /\ last'.fx = <<Timer(last'.node)>>
             /\ ~last'.thrown
             /\ node' = [node EXCEPT ![last'.node].timers = @ + 1]
       /\ (last'.op = "_close" /\ last'.arg # NormalClosure)
          => /\ last'.fx = <<Timer(last'.node)>>
             /\ node' = [node EXCEPT ![last'.node].timers = @ + 1,
                                     ![last'.node].ready = FALSE]
       /\ (last'.op = "_error" /\ Count(last'.fx, "emit") > 0)
          => /\ last'.fx = <<EmitNode(last'.node, "error", last'.arg)>>
             /\ node' = node
       /\ last'.op = "reconnect"
          => last'.fx = <<EmitNode(last'.node, "reconnecting", ""), Opened(last'.node)>>
      ]_vars

\* C15 witness: an error was emitted as the error signal on a node that has
\* a timer armed, one of whose sockets had been refused.
C15_Witness ==
    /\ last.op = "_error"
    /\ last.fx = <<EmitNode(last.node, "error", last.arg)>>
    /\ node[last.node].timers > 0
    /\ \E s \in SockIds : socks[s].owner = last.node /\ socks[s].reconnects = 2

\* The last step was an abnormal close on node n, which is not removed.
ClosedAbnormally(n) ==
    /\ last.op = "_close"
    /\ last.node = n
    /\ last.arg # NormalClosure
    /\ ~node[n].removed

\* The last step was node n's timer: 'reconnecting', then a new socket.
Reconnected(n) ==
    /\ last.op = "reconnect"
    /\ last.node = n
    /\ last.fx = <<EmitNode(n, "reconnecting", ""), Opened(n)>>
    /\ socks[last.sock].st = "connecting"

\* C16: every abnormal close on a node that is not removed is followed by
\* that node emitting 'reconnecting' and then opening a socket, however
\* many closes came before; and a socket that opens makes its node ready.
C16_AbnormalCloseReconnects ==
    /\ \A n \in 1..MaxNodes : [](ClosedAbnormally(n) => <>Reconnected(n))
    /\ [](last.op = "_ready" => node[last.node].ready)

\* C16 witness: a node reconnected after its second abnormal close (neither
\* preceded by a refused connection), and the third socket opened.
C16_Witness ==
    /\ last.op = "_ready"
    /\ node[last.node].ready
    /\ Cardinality({s \in SockIds : /\ socks[s].owner = last.node
                                     /\ socks[s].st = "closed"
                                     /\ socks[s].code = 1006
                                     /\ socks[s].reconnects = 1}) = 2

\* A parsed frame reached LavaLink.message: the node had its listeners.
Demultiplexed(c) == Parsed(c) /\ node[c.node].listening

\* C17: LavaLink.message does nothing for a frame without an op; for a
\* playerUpdate it replaces the state of the session of the frame's guild
\* with the frame's state and changes nothing else, emits nothing on any
\* session and does not throw; with no such session nothing changes.
C17_PlayerUpdateReplacesState ==
    [][(Demultiplexed(last') /\ last'.arg.op \in {"", "playerUpdate"})
        => /\ PlayerFx(last') = <<>>
           /\ ~last'.thrown
           /\ players' = IF last'.arg.op = "playerUpdate" /\ HasPlayer(last'.arg.guildId)
                            THEN [players EXCEPT ![last'.arg.guildId].state = last'.arg.state]
                            ELSE players
      ]_vars

\* C17 witness: a playerUpdate replaced the state of a playing session while
\* the other guild's session kept its own.
C17_Witness ==
    /\ Demultiplexed(last)
    /\ last.arg.op = "playerUpdate"
    /\ HasPlayer(last.guild)
    /\ players[last.guild].state = "{position:1}"
    /\ players[last.guild].playing
    /\ \E o \in DOMAIN players : o # last.guild /\ players[o].state = "{}"

\* C18: an event frame for a guild with a session runs one handler of that
\* session and touches no other session: TrackEndEvent gives the end signal
\* of end; TrackExceptionEvent gives one error signal and no change;
\* TrackStuckEvent gives what stuck does (a stop, then the end signal) and
\* neither error nor warn; any other type gives one warn signal carrying
\* the type, no change and no throw.
C18_EventRunsOneHandler ==
    [][\A ty \in EventTypes :
         Delivered(last', ty)
         => /\ DOMAIN players' = DOMAIN players
            /\ \A o \in DOMAIN players \ {last'.guild} : players'[o] = players[o]
            /\ \A i \in DOMAIN PlayerFx(last') : PlayerFx(last')[i].g = last'.guild
            /\ CASE ty = "TrackEndEvent" -> EndEmittedOnce(last')
                 [] ty = "TrackExceptionEvent" ->
                      /\ PlayerFx(last') = <<EmitPlayer(last'.guild, "error", ty)>>
                      /\ players' = players
                 [] ty = "TrackStuckEvent" ->
                      PlayerFx(last') \in
                        { <<>>,
                          <<EmitPlayer(last'.guild, "end", ty)>>,
                          <<Wire(players[last'.guild].node, last'.guild, "stop", ""),
                            EmitPlayer(last'.guild, "end", ty)>> }
                 [] OTHER ->
                      /\ PlayerFx(last') = <<EmitPlayer(last'.guild, "warn", ty)>>
                      /\ players' = players
                      /\ ~last'.thrown
      ]_vars

\* C18 witness: an event of an unknown type gave a warn on its session while
\* the other guild's session was playing.
C18_Witness ==
    /\ Delivered(last, "WebSocketClosedEvent")
    /\ PlayerFx(last) = <<EmitPlayer(last.guild, "warn", "WebSocketClosedEvent")>>
    /\ \E o \in DOMAIN players : o # last.guild /\ players[o].playing

\* C19: voiceServerUpdate for a guild without a session sends nothing; for a
\* guild with a session it writes one voiceUpdate carrying the session's
\* guild to the session's node; it changes no session and does not throw.
C19_VoiceUpdateSentOnce ==
    [][last'.op = "voiceServerUpdate" =>
        /\ players' = players
        /\ ~last'.thrown
        /\ last'.fx = IF HasPlayer(last'.guild)
                        THEN <<Wire(players[last'.guild].node, last'.guild, "voiceUpdate", "sid")>>
                        ELSE <<>>
      ]_vars

\* The player methods that send and never return early.
Senders == {"voiceUpdate", "play", "stop", "volume", "seek"}

\* C20: connect, play, stop, volume and seek each write one message carrying
\* the session's guild to the session's node; after play the session has
\* the track and is playing; after stop it is not playing and has no track;
\* after an end with reason "finished" it is not playing and one end signal
\* was emitted.
C20_OneMessagePerControl ==
    /\ last.op \in Senders
          => /\ last.fx = <<Wire(players[last.guild].node, last.guild, last.op, last.arg)>>
             /\ last.op = "play"
                   => players[last.guild].track = last.arg /\ players[last.guild].playing
             /\ last.op = "stop"
                   => players[last.guild].track = Null /\ ~players[last.guild].playing
    /\ (EndRan(last) /\ EndReason(last) = "finished")
          => ~players[last.guild].playing /\ EndEmittedOnce(last)

\* The states of the stated machine that node object n is in, read off its
\* fields: connecting while the socket in its handle has not opened, ready
\* while the ready flag is set, reconnecting while a timer is armed,
\* disconnected once the handle is released with nothing armed.
Handshaking(nd, sk, n) ==
    /\ nd[n].ws # NoSock
    /\ \/ sk[nd[n].ws].st = "connecting"
       \/ sk[nd[n].ws].st = "errored" /\ nd[n].timers = 0 /\ ~nd[n].ready
Phases(nd, sk, n) ==
    {ph \in {"connecting"} : Handshaking(nd, sk, n)}
      \cup {ph \in {"ready"} : nd[n].ready}
      \cup {ph \in {"reconnecting"} : nd[n].timers > 0}
      \cup {ph \in {"disconnected"} : nd[n].ws = NoSock /\ nd[n].timers = 0 /\ ~nd[n].ready}

\* The transitions of the stated machine.
Transitions ==
    { <<"connecting", "ready">>, <<"connecting", "reconnecting">>, <<"ready", "reconnecting">>,
      <<"ready", "disconnected">>, <<"reconnecting", "connecting">> }

\* C21: every node object is in exactly one state of the machine, starts
\* in connecting, and every step leaves its state alone or takes one of the
\* machine's transitions; nothing leaves disconnected.
C21_FollowsStateMachine ==
    [][\A n \in DOMAIN node' :
         /\ Cardinality(Phases(node', socks', n)) = 1
         /\ IF n \in DOMAIN node
              THEN \A a \in Phases(node, socks, n), b \in Phases(node', socks', n) :
                     a = b \/ <<a, b>> \in Transitions
              ELSE Phases(node', socks', n) = {"connecting"}
      ]_vars

\* The sockets still connecting or open whose handlers are bound to node n.
Wired(n) == {s \in SockIds : socks[s].owner = n /\ socks[s].st \in {"connecting", "open"}}

\* C22: no node object has two timers armed, nor two sockets connecting or
\* open at once.
C22_OneTimerOneSocket ==
    \A n \in NodeIds : node[n].timers <= 1 /\ Cardinality(Wired(n)) <= 1

\* C23: between socket events, a node that is ready holds an open socket in
\* its handle; and an event of a socket that is not in the handle changes
\* neither ready nor the handle.
C23_ReadyMeansOpenHandle ==
    [][/\ Settled' =>
            \A n \in DOMAIN node' :
                node'[n].ready => node'[n].ws # NoSock /\ socks'[node'[n].ws].st = "open"
       /\ (last'.op \in {"_ready", "_error", "_close", "_message"}
              /\ node[last'.node].ws # last'.sock)
            => /\ node'[last'.node].ready = node[last'.node].ready
               /\ node'[last'.node].ws = node[last'.node].ws
      ]_vars

\* C24: every session is stored under its own guild and is bound to a node
\* object that LavaLink.nodes holds.
C24_SessionsBoundToRegisteredNode ==
    \A g \in DOMAIN players :
        /\ players[g].guild = g
        /\ \E h \in DOMAIN nodes : nodes[h] = players[g].node

\* C25: a step changes the paused flag of a session only if it is pause
\* called on that session with a flag that differs from the flag it had,
\* and the flag then has that value; a new session is not paused.
C25_OnlyPauseChangesPaused ==
    [][\A g \in DOMAIN players' :
         IF g \in DOMAIN players
           THEN players'[g].paused # players[g].paused
                  => /\ last'.op = "pause"
                     /\ last'.guild = g
                     /\ last'.arg # players[g].paused
                     /\ players'[g].paused = last'.arg
           ELSE ~players'[g].paused
      ]_vars

\* C25 witness: play on a paused session that is not playing (it was
\* stopped, or never played) left it playing and paused.
C25_Witness ==
    /\ last.op = "play"
    /\ last.arg = "TRACK1"
    /\ Count(last.fx, "wire") = 1
    /\ players[last.guild].playing
    /\ players[last.guild].paused
====
